---- MODULE Spec2Model ----
(***************************************************************************)
(* ttf2dxf: TrueType glyph outlines to DXF polylines.                      *)
(*                                                                         *)
(* Three specifications over one set of variables:                         *)
(*   Spec         main(): option parsing, the FreeType calls, the ASCII    *)
(*                loop, the text loop, render_char, the outline handlers   *)
(*                and everything they print;                               *)
(*   SpecExtents  the extents tracker (extents_reset, extents_add_point,   *)
(*                extents_add_extents) driven by arbitrary call sequences; *)
(*   SpecBitmap   my_draw_bitmap on one bitmap, one bit of the scan per    *)
(*                step.                                                    *)
(*                                                                         *)
(* Numbers.  FT_Vector coordinates are integers.  The doubles of the curve *)
(* handlers are rationals of the integer inputs: a point is <<X, Y, D>>,   *)
(* standing for (X/D, Y/D), in lowest terms with D > 0.  Square roots      *)
(* (unit, hypot, the biarc root) are not rationals: the length estimate    *)
(* carries four decimals, and the tests the fitter makes on values         *)
(* behind a square root (a == 0, beta <= 0, fabs(den) < 1e-10) are decided *)
(* exactly, by squaring.  The joint point of a biarc and the bulge values  *)
(* are not represented: NoPt stands for the former, the presence of group  *)
(* code 42 for the latter.                                                 *)
(***************************************************************************)
EXTENDS Integers, Sequences, FiniteSets, TLC

VARIABLES
    pc,             \* position in main() / render_char()
    argv,           \* the command line: the options given and the text argument
    face,           \* the font FT_New_Face opened
    genfont,        \* int genfont (line 50)
    layer,          \* char *layer (line 48); << >> is the null pointer
    dsteps,         \* double dsteps (line 47), a rational [num, den]
    csteps,         \* int csteps (line 43)
    linescale,      \* int linescale of main (line 466)
    charcode,       \* wchar_t charcode (line 49)
    wc,             \* wchar_t wc of the ASCII loop (line 530)
    site,           \* which loop called render_char: "ascii" or "text"
    s,              \* char *s: the text not yet consumed (line 463)
    l,              \* int l: the byte count main keeps for s (line 461)
    offset,         \* long offset of main (line 462)
    glyph_index,    \* int glyph_index of render_char (line 396)
    evi,            \* how many outline events FT_Outline_Decompose has delivered
    ret,            \* the value render_char returned
    advance,        \* static FT_Vector advance (line 167)
    exit_code,      \* the process exit status; -1 while running
    ft_error,       \* the error code the failing library call returned; 0 if none
    glyph_extents,  \* struct extents glyph_extents (line 165)
    line_extents,   \* struct extents line_extents  (line 165)
    last_point,     \* static FT_Vector last_point (line 157)
    odd,            \* static int odd of my_draw_bitmap (line 348)
    out,            \* standard output: one element per printf call
    mark,           \* Len(out) when render_char was entered
    bmark,          \* Len(out) when my_draw_bitmap returned
    walked,         \* points passed to extents_add_point(&glyph_extents, ..) by the
                    \* handlers since render_char was entered
    calls,          \* handler invocations since render_char was entered
    curve,          \* the last my_conic_to / my_cubic_to call: len, spacing, biarc calls
    fed_glyph,      \* SpecExtents: points merged into glyph_extents since its reset
    fed_line,       \* SpecExtents: points merged into line_extents since its reset
    bm,             \* SpecBitmap: the FT_Bitmap and the x, y, linescale arguments
    bm_pc,          \* SpecBitmap: position in my_draw_bitmap
    bm_j,           \* SpecBitmap: row j
    bm_i,           \* SpecBitmap: byte i of the row
    bm_bits,        \* SpecBitmap: bit counter of the innermost loop
    scan            \* SpecBitmap: oldbit, spans, oldv, v, vbuf of my_draw_bitmap

extVars == <<fed_glyph, fed_line>>
walkVars == <<glyph_extents, last_point, out, walked, calls>>
bmVars == <<bm, bm_pc, bm_j, bm_i, bm_bits, scan>>
mainVars == <<pc, argv, face, genfont, layer, dsteps, csteps, linescale, charcode,
              wc, site, s, l, offset, glyph_index, evi, ret, advance, exit_code,
              ft_error, mark, bmark, curve>>
vars == <<mainVars, walkVars, extVars, bmVars, line_extents, odd>>

(***************************************************************************)
(* Arithmetic helpers.                                                     *)
(***************************************************************************)
Abs(n) == IF n < 0 THEN -n ELSE n
Sign(n) == IF n < 0 THEN -1 ELSE IF n > 0 THEN 1 ELSE 0

\* C integer division and a double-to-integer conversion: toward zero
TruncDiv(n, d) == Sign(n) * Sign(d) * (Abs(n) \div Abs(d))

RECURSIVE GCD(_, _)
GCD(a, b) == IF b = 0 THEN Abs(a) ELSE GCD(Abs(b), Abs(a) % Abs(b))

\* floor of the square root, by bisection on lo <= root < hi
RECURSIVE SqrtBetween(_, _, _)
SqrtBetween(n, lo, hi) ==
    IF hi - lo <= 1 THEN lo
    ELSE LET mid == (lo + hi) \div 2
         IN  IF mid * mid <= n THEN SqrtBetween(n, mid, hi)
             ELSE SqrtBetween(n, lo, mid)
ISqrt(n) == SqrtBetween(n, 0, 46341)

\* Loops.  A loop "for (t = lo; t <= hi; t++) body" is an operator
\* Loop(acc, lo, hi, ...) giving the state after passes lo .. hi from state acc.
\* It is evaluated by halves, passes lo .. mid before passes mid + 1 .. hi; the
\* test "first = first" only has the first half evaluated before the second
\* is entered, which keeps the evaluation shallow for loops of many passes.

\* the characters printf("%d") writes, as character codes
RECURSIVE Digits(_)
Digits(n) == IF n < 10 THEN <<48 + n>> ELSE Digits(n \div 10) \o <<48 + (n % 10)>>
Decimal(n) == IF n < 0 THEN <<45>> \o Digits(-n) ELSE Digits(n)

(***************************************************************************)
(* Extents tracker, lines 159-209.                                         *)
(***************************************************************************)
\* the magnitude extents_reset stores in the four fields
BIG == 2000000000

\* glyph_extents and line_extents are globals without initialiser: all zero
extents_zero == [minx |-> 0, maxx |-> 0, miny |-> 0, maxy |-> 0]

extents_reset == [minx |-> BIG, maxx |-> -BIG, miny |-> BIG, maxy |-> -BIG]

\* extents_add_point with the four tests chained by else
extents_add_point_chained(e, p) ==
    [maxx |-> IF p.x > e.maxx THEN p.x ELSE e.maxx,
     maxy |-> IF p.x > e.maxx THEN e.maxy
              ELSE IF p.y > e.maxy THEN p.y ELSE e.maxy,
     minx |-> IF p.x > e.maxx \/ p.y > e.maxy THEN e.minx
              ELSE IF p.x < e.minx THEN p.x ELSE e.minx,
     miny |-> IF p.x > e.maxx \/ p.y > e.maxy \/ p.x < e.minx THEN e.miny
              ELSE IF p.y < e.miny THEN p.y ELSE e.miny]

extents_add_point(e, p) ==
    [maxx |-> IF p.x > e.maxx THEN p.x ELSE e.maxx,
     maxy |-> IF p.y > e.maxy THEN p.y ELSE e.maxy,
     minx |-> IF p.x < e.minx THEN p.x ELSE e.minx,
     miny |-> IF p.y < e.miny THEN p.y ELSE e.miny]

extents_add_extents(e1, e2) ==
    [maxx |-> IF e2.maxx > e1.maxx THEN e2.maxx ELSE e1.maxx,
     maxy |-> IF e2.maxy > e1.maxy THEN e2.maxy ELSE e1.maxy,
     minx |-> IF e2.minx < e1.minx THEN e2.minx ELSE e1.minx,
     miny |-> IF e2.miny < e1.miny THEN e2.miny ELSE e1.miny]

(***************************************************************************)
(* What is printed.  One element of out per printf call: the group codes   *)
(* it writes, in order, and the values that go with them.                  *)
(***************************************************************************)
NoPt == <<0, 0, 0>>
NoTag == << >>
IntPt(p) == <<p.x, p.y, 1>>

Rec(kind, codes, pt, text, flag, val, tag) ==
    [kind |-> kind, codes |-> codes, pt |-> pt, text |-> text, flag |-> flag,
     val |-> val, tag |-> tag]

\* line 524 and line 564
PreambleRec == Rec("SECTION", <<0, 2>>, NoPt, "ENTITIES", 0, 0, NoTag)
PostambleRec == Rec("ENDSEC", <<0, 0>>, NoPt, "EOF", 0, 0, NoTag)
\* line 229: "  0\nLWPOLYLINE\n  10\n%ld.000\n 20\n%ld.000\n"
PolylineRec(to) == Rec("LWPOLYLINE", <<0, 10, 20>>, IntPt(to), "", 0, 0, NoTag)
\* line 242: "  10\n%ld.000\n 20\n%ld.000\n"; line 84: "  10\n%.4f\n 20\n%.4f\n"
VertexRec(pt) == Rec("vertex", <<10, 20>>, pt, "", 0, 0, NoTag)
\* line 114: "  42\n%.4f\n 10\n%.4f\n  20\n%.4f\n"
BulgeVertexRec(pt) == Rec("vertex", <<42, 10, 20>>, pt, "", 0, 0, NoTag)
\* line 94: "G1 X[%.4f*#3+#5] Y[%.4f*#3+#6]\n": no group code at all
GcodeRec(pt) == Rec("G1", << >>, pt, "G1 X[*#3+#5] Y[*#3+#6]", 0, 0, NoTag)
\* lines 214, 217, 219: "  8\n...\n"
LayerRec(tag) == Rec("layer", <<8>>, NoPt, "", 0, 0, tag)
\* lines 534-544: " 0\nDIMENSION\n 70\n<f>\n 1\n<name>\n <c>\n%ld\n"
DimensionRec(name, flag, code, val) ==
    Rec("DIMENSION", <<0, 70, 1, code>>, NoPt, name, flag, val, NoTag)

\* maybe_output_layer, lines 211-222.  A tag is the text after "  8\n", as
\* character codes: "_%d" is '_' and the decimal digits, "%c" the character.
\* G is the globals it reads: [genfont, layer, charcode].
maybe_output_layer(G) ==
    IF G.genfont # 0
    THEN IF G.charcode < 32 \/ G.charcode > 126
         THEN <<LayerRec(<<95>> \o Decimal(G.charcode))>>
         ELSE <<LayerRec(<<G.charcode>>)>>
    ELSE IF G.layer # << >>
         THEN <<LayerRec(G.layer)>>
         ELSE << >>

(***************************************************************************)
(* The outline handlers work on the globals they share, gathered in a      *)
(* record W: out, last_point, glyph_extents, walked, calls.                *)
(***************************************************************************)
NoCalls == [move |-> 0, line |-> 0, conic |-> 0, cubic |-> 0, biarc |-> 0, arc |-> 0]

Walker == [out |-> out, last_point |-> last_point, glyph_extents |-> glyph_extents,
           walked |-> walked, calls |-> calls]

SetWalker(W) ==
    /\ out' = W.out
    /\ last_point' = W.last_point
    /\ glyph_extents' = W.glyph_extents
    /\ walked' = W.walked
    /\ calls' = W.calls

\* extents_add_point(&glyph_extents, p) as the handlers call it
MergePoint(W, p) ==
    [W EXCEPT !.glyph_extents = extents_add_point(@, p),
              !.walked = @ \cup {p}]

\* my_move_to, lines 225-235
my_move_to(W, to, G) ==
    MergePoint([W EXCEPT !.out = @ \o <<PolylineRec(to)>> \o maybe_output_layer(G),
                         !.last_point = to,
                         !.calls.move = @ + 1], to)

\* my_line_to, lines 240-247
my_line_to(W, to) ==
    MergePoint([W EXCEPT !.out = Append(@, VertexRec(IntPt(to))),
                         !.last_point = to,
                         !.calls.line = @ + 1], to)

(***************************************************************************)
(* my_draw_bitmap, lines 341-391.  A bitmap is [rows, pitch, buffer], the  *)
(* buffer a sequence of rows * pitch bytes.                                *)
(***************************************************************************)
\* FT_Vector vbuf[100]
VBUF_LEN == 100

Pow2(n) == 2 ^ n
\* byte & mask
BitAnd(byte, mask) == ((byte \div mask) % 2) * mask

\* oldv = {99999, 0}; v is not initialised and not read before it is assigned
ScanStart ==
    [oldbit |-> 0, spans |-> 0, oldv |-> [x |-> 99999, y |-> 0],
     v |-> [x |-> 0, y |-> 0], vbuf |-> << >>, overrun |-> FALSE]

\* the top of the body of the loop over j: oldbit = 0; spans = 0
RowStart(st) == [st EXCEPT !.oldbit = 0, !.spans = 0]

\* vbuf[spans++] = v; a write at or beyond vbuf[100] is outside the array.
\* vbuf[k] of the program is vbuf[k + 1] here; entries are written in order, so
\* the sequence holds every entry written so far.
Store(st) ==
    IF st.spans >= VBUF_LEN \/ st.spans < 0
    THEN [st EXCEPT !.overrun = TRUE, !.spans = @ + 1]
    ELSE [st EXCEPT !.vbuf = IF st.spans < Len(@)
                             THEN [@ EXCEPT ![st.spans + 1] = st.v]
                             ELSE Append(@, st.v),
                    !.spans = @ + 1]

\* v.y = (y-j)*64*64/linescale-64*32/linescale
SpanY(y, j, ls) == TruncDiv((y - j) * 64 * 64, ls) - TruncDiv(64 * 32, ls)

\* one pass of the innermost loop, lines 356-370
ScanBit(st, byte, i, bits, j, x, y, ls) ==
    LET mask == Pow2(7 - bits)
        bit == BitAnd(byte, mask)
        v0 == [x |-> i * 8 + bits + x, y |-> SpanY(y, j, ls)]
        s0 == [st EXCEPT !.v = v0]
        s1 == IF s0.oldbit = 0 /\ bit # 0
              THEN LET v1 == [s0.v EXCEPT !.x = @ + 8]
                   IN  Store([s0 EXCEPT !.v = v1, !.oldv = v1])
              ELSE s0
        s2 == IF s1.oldbit # 0 /\ bit = 0
              THEN LET v2 == [s1.v EXCEPT !.x = @ - 8]
                   IN  IF s1.oldv.x < v2.x
                       THEN Store([s1 EXCEPT !.v = v2])
                       ELSE [s1 EXCEPT !.v = v2, !.spans = @ - 1]
              ELSE s1
    IN  [s2 EXCEPT !.oldbit = bit]

\* after the loop over i, lines 373-376
RowClose(st) ==
    IF st.oldbit # 0
    THEN Store([st EXCEPT !.v = [@ EXCEPT !.x = @ - 8]])
    ELSE st

\* vbuf[k] of the program is vbuf[k + 1] here.
\* The loop of lines 380-383: i = n - 1 down to 0; pass number k has i = n - 1 - k
RECURSIVE EmitOdd(_, _, _, _, _, _)
EmitOdd(W, lo, hi, vbuf, n, G) ==
    IF lo > hi THEN W
    ELSE IF lo = hi
    THEN LET i == n - 1 - lo
         IN  my_line_to(my_move_to(W, vbuf[1 + i * 2 + 1], G), vbuf[i * 2 + 1])
    ELSE LET mid == (lo + hi) \div 2
             first == EmitOdd(W, lo, mid, vbuf, n, G)
         IN  IF first = first THEN EmitOdd(first, mid + 1, hi, vbuf, n, G) ELSE first

\* the loop of lines 385-388: i = lo .. hi
RECURSIVE EmitEven(_, _, _, _, _)
EmitEven(W, lo, hi, vbuf, G) ==
    IF lo > hi THEN W
    ELSE IF lo = hi THEN my_line_to(my_move_to(W, vbuf[lo * 2 + 1], G), vbuf[1 + lo * 2 + 1])
    ELSE LET mid == (lo + hi) \div 2
             first == EmitEven(W, lo, mid, vbuf, G)
         IN  IF first = first THEN EmitEven(first, mid + 1, hi, vbuf, G) ELSE first

\* the emission loops stopping one pair early
EmitRowShort(W, st, od, G) ==
    LET n == st.spans \div 2
    IN  IF od # 0 THEN EmitOdd(W, 0, n - 2, st.vbuf, n, G)
        ELSE EmitEven(W, 0, n - 2, st.vbuf, G)

\* lines 378-389, with spans /= 2
EmitRow(W, st, od, G) ==
    LET n == st.spans \div 2
    IN  IF od # 0 THEN EmitOdd(W, 0, n - 1, st.vbuf, n, G)
        ELSE EmitEven(W, 0, n - 1, st.vbuf, G)

\* the loops over i and bits of row j, lines 353-372: bits lo .. hi of the
\* row, bit k being bit k % 8 of byte k \div 8; nothing is modelled after a
\* write outside vbuf
RECURSIVE ScanRow(_, _, _, _, _, _, _, _)
ScanRow(st, lo, hi, b, j, x, y, ls) ==
    IF lo > hi \/ st.overrun THEN st
    ELSE IF lo = hi
    THEN ScanBit(st, b.buffer[j * b.pitch + (lo \div 8) + 1], lo \div 8, lo % 8,
                 j, x, y, ls)
    ELSE LET mid == (lo + hi) \div 2
             first == ScanRow(st, lo, mid, b, j, x, y, ls)
         IN  IF first = first THEN ScanRow(first, mid + 1, hi, b, j, x, y, ls) ELSE first

\* my_draw_bitmap as a whole, from row j on: [W, odd, overrun]
RECURSIVE DrawRows(_, _, _, _, _, _, _, _, _)
DrawRows(W, st, od, b, j, x, y, ls, G) ==
    IF j >= b.rows THEN [W |-> W, odd |-> od, overrun |-> FALSE]
    ELSE LET done == RowClose(ScanRow(RowStart(st), 0, b.pitch * 8 - 1, b, j, x, y, ls))
             nod == IF od = 0 THEN 1 ELSE 0
         IN  IF done.overrun THEN [W |-> W, odd |-> od, overrun |-> TRUE]
             ELSE DrawRows(EmitRow(W, done, nod, G), done, nod, b, j + 1, x, y, ls, G)

my_draw_bitmap(W, od, b, x, y, ls, G) ==
    DrawRows(W, ScanStart, od, b, 0, x, y, ls, G)

(***************************************************************************)
(* Vector helpers, lines 56-81, on integer vectors [x, y].  unit(a) keeps  *)
(* the direction of a and maps the zero vector to itself, so a tangent is  *)
(* carried as an integer vector of its direction, divided by its gcd.      *)
(***************************************************************************)
dot(a, b) == a.x * b.x + a.y * b.y
Cross(a, b) == a.x * b.y - a.y * b.x
sub(a, b) == [x |-> a.x - b.x, y |-> a.y - b.y]
IsZero(a) == a.x = 0 /\ a.y = 0

Reduce(v) ==
    LET g == GCD(v.x, v.y)
    IN  IF g = 0 THEN v ELSE [x |-> TruncDiv(v.x, g), y |-> TruncDiv(v.y, g)]

\* a rational point in lowest terms
RatPt(X, Y, D) ==
    LET g == GCD(GCD(X, Y), D) IN <<TruncDiv(X, g), TruncDiv(Y, g), D \div g>>

\* the direction of p - q for rational points p and q
DirBetween(p, q) ==
    Reduce([x |-> p[1] * q[3] - q[1] * p[3], y |-> p[2] * q[3] - q[2] * p[3]])

\* the sign of A / sqrt(Ms) + B / sqrt(Me), for Ms > 0 and Me > 0
SignSum(A, Ms, B, Me) ==
    IF A >= 0 /\ B >= 0 THEN (IF A > 0 \/ B > 0 THEN 1 ELSE 0)
    ELSE IF A <= 0 /\ B <= 0 THEN -1
    ELSE IF A > 0 THEN Sign(A * A * Me - B * B * Ms)
    ELSE Sign(B * B * Ms - A * A * Me)

\* w is a positive multiple of ks * unit(ts) + ke * unit(te)
AlongSum(w, ts, ks, te, ke) ==
    /\ SignSum(ks * Cross(w, ts), dot(ts, ts), ke * Cross(w, te), dot(te, te)) = 0
    /\ SignSum(ks * dot(w, ts), dot(ts, ts), ke * dot(w, te), dot(te, te)) > 0

(***************************************************************************)
(* arc, lines 88-116, and biarc, lines 118-154, with r = 1.                *)
(*                                                                         *)
(* With s = unit(ts), e = unit(te), w = p4 - p0 (so v = -w):               *)
(*   a = 2(s.e - 1) <= 0, c = w.w >= 0, so disc = b*b - 4*a*c >= 0;        *)
(*   a = 0 exactly when ts and te are non-zero and point the same way;     *)
(*   for a < 0 the larger root is beta = (b + sqrt(disc)) / (2|a|) >= 0,   *)
(*   and it is 0 exactly when w = 0;                                       *)
(*   tm = p3 - p2 = (w - beta (s + e)) / 2 is never zero when beta > 0;    *)
(*   arc(p0, p2, ts):  den = 2 Cross(s, tm);                               *)
(*   arc(p2, p4, tm):  den = 2 beta Cross(unit(tm), e).                    *)
(* With both tangents non-zero |tm| = beta, hence den of the first arc is  *)
(* 0 exactly when tm = beta s or tm = -beta s, that is when w is a         *)
(* positive multiple of 3s + e or of e - s; likewise s + 3e or s - e for   *)
(* the second arc.                                                         *)
(***************************************************************************)
\* arc(): the record it prints for end point pt, given whether fabs(den) < 1e-10
arc(pt, den_vanishes) ==
    IF den_vanishes THEN GcodeRec(pt) ELSE BulgeVertexRec(pt)

\* fabs(den) < 1e-10 in arc(p0, p2, ts)
Den1Vanishes(w, ts, te) ==
    IF IsZero(ts) THEN TRUE
    ELSE IF IsZero(te) THEN Cross(ts, w) = 0
    ELSE AlongSum(w, ts, 3, te, 1) \/ AlongSum(w, ts, -1, te, 1)

\* fabs(den) < 1e-10 in arc(p2, p4, tm)
Den2Vanishes(w, ts, te) ==
    IF IsZero(te) THEN TRUE
    ELSE IF IsZero(ts) THEN Cross(w, te) = 0
    ELSE AlongSum(w, ts, 1, te, 3) \/ AlongSum(w, ts, 1, te, -1)

\* ts and te non-zero and pointing the same way: dot(ts, te) is 1 up to the
\* rounding of two divisions and a square root, and a is 0 or a few ulps
SameDirection(ts, te) ==
    /\ ~IsZero(ts) /\ ~IsZero(te)
    /\ Cross(ts, te) = 0 /\ dot(ts, te) > 0

\* the records one biarc(p0, ts, p4, te, 1.0) call may print; p4 is the
\* rational point pt, w the direction of p4 - p0
line(pt) == <<VertexRec(pt)>>

biarc(pt, w, ts, te) ==
    IF IsZero(w) THEN {line(pt)}
    ELSE IF SameDirection(ts, te)
    THEN {line(pt)} \cup
         {<<arc(NoPt, d1), arc(pt, d2)>> : d1 \in BOOLEAN, d2 \in BOOLEAN}
    ELSE {<<arc(NoPt, Den1Vanishes(w, ts, te)), arc(pt, Den2Vanishes(w, ts, te))>>}

\* W after one biarc call that printed recs
AfterBiarc(W, recs) ==
    [W EXCEPT !.out = @ \o recs,
              !.calls.biarc = @ + 1,
              !.calls.arc = @ + (IF Len(recs) = 2 THEN 2 ELSE 0)]

(***************************************************************************)
(* my_conic_to, lines 252-289, and my_cubic_to, lines 294-339.             *)
(*                                                                         *)
(* The sampling loop: tf = t/csteps, so a sample is a rational with        *)
(* denominator csteps^2 (conic) or csteps^3 (cubic).  Samples and len are  *)
(* carried in units of 1/csteps^2 (four decimals for csteps = 100); point  *)
(* is the sample converted to long.                                        *)
(***************************************************************************)
Sq(a) == a * a
Cube(a) == a * a * a

\* x and y of line 263-264, times csteps^2
ConicSample(t, cs, A, B, C) ==
    [x |-> Sq(cs - t) * A.x + 2 * t * (cs - t) * B.x + Sq(t) * C.x,
     y |-> Sq(cs - t) * A.y + 2 * t * (cs - t) * B.y + Sq(t) * C.y]

\* x and y of lines 304-311, times csteps^3
CubicSample(t, cs, A, B, C, D) ==
    [x |-> Cube(cs - t) * A.x + Sq(cs - t) * 3 * t * B.x
           + Sq(t) * (cs - t) * 3 * C.x + Cube(t) * D.x,
     y |-> Cube(cs - t) * A.y + Sq(cs - t) * 3 * t * B.y
           + Sq(t) * (cs - t) * 3 * C.y + Cube(t) * D.y]

\* hypot(x - point.x, y - point.y) in units of 1/unit, for a sample xy in the
\* same units and the previous point in whole units
Hypot(xy, point, unit) ==
    ISqrt(Sq(xy.x - unit * point.x) + Sq(xy.y - unit * point.y))

\* one pass of the sampling loop on L = [W, point, len]; xy is the sample in
\* units of 1/csteps^2
SampleStep(L, xy, cs) ==
    LET pt == [x |-> TruncDiv(xy.x, Sq(cs)), y |-> TruncDiv(xy.y, Sq(cs))]
    IN  [W |-> MergePoint(L.W, pt),
         point |-> pt,
         len |-> L.len + Hypot(xy, L.point, Sq(cs))]

\* the loop of lines 261-269
RECURSIVE ConicSampling(_, _, _, _, _, _, _)
ConicSampling(L, lo, hi, cs, A, B, C) ==
    IF lo > hi THEN L
    ELSE IF lo = hi THEN SampleStep(L, ConicSample(lo, cs, A, B, C), cs)
    ELSE LET mid == (lo + hi) \div 2
             first == ConicSampling(L, lo, mid, cs, A, B, C)
         IN  IF first = first THEN ConicSampling(first, mid + 1, hi, cs, A, B, C) ELSE first

CubicSampleUnits(t, cs, A, B, C, D) ==
    LET n == CubicSample(t, cs, A, B, C, D)
    IN  [x |-> TruncDiv(n.x, cs), y |-> TruncDiv(n.y, cs)]

\* the loop of lines 302-316
RECURSIVE CubicSampling(_, _, _, _, _, _, _, _)
CubicSampling(L, lo, hi, cs, A, B, C, D) ==
    IF lo > hi THEN L
    ELSE IF lo = hi THEN SampleStep(L, CubicSampleUnits(lo, cs, A, B, C, D), cs)
    ELSE LET mid == (lo + hi) \div 2
             first == CubicSampling(L, lo, mid, cs, A, B, C, D)
         IN  IF first = first THEN CubicSampling(first, mid + 1, hi, cs, A, B, C, D) ELSE first

(***************************************************************************)
(* int steps = (int)max(2, len/dsteps), lines 275 and 318.  dsteps is the  *)
(* rational num/den, with den = 1, or num = 1 and den a multiple of        *)
(* csteps^2.  len is in units of 1/csteps^2.                               *)
(*   dsteps = 0, len = 0:  0/0 is NaN, 2 < NaN is false, max returns 2;    *)
(*   dsteps = 0, len > 0:  len/0 is +inf, max returns +inf;                *)
(*   dsteps < 0:           len/dsteps <= 0, max returns 2.                 *)
(* The conversion to int of +inf, or of a value of 2^31 or more, is        *)
(* undefined: cvttsd2si gives INT_MIN, a saturating conversion INT_MAX.    *)
(***************************************************************************)
INT_MAX == 2147483647
INT_MIN == -INT_MAX - 1

Max2(q) == IF 2 < q THEN q ELSE 2

StepsOutcomes(len, ds, cs) ==
    IF ds.num = 0 THEN (IF len = 0 THEN {2} ELSE {INT_MIN, INT_MAX})
    ELSE IF ds.num < 0 THEN {2}
    ELSE IF ds.den = 1 THEN {Max2(len \div (Sq(cs) * ds.num))}
    ELSE LET k == ds.den \div Sq(cs)
         IN  IF len > INT_MAX \div k THEN {INT_MIN, INT_MAX}
             ELSE {Max2(len * k)}

(***************************************************************************)
(* The subdivision loops, lines 271-285 and 319-334.  K is                 *)
(* [Ws, ps, ts, n]: the possible W, the previous point and tangent, and    *)
(* the number of biarc calls made.                                         *)
(***************************************************************************)
ArcStep(K, p, t) ==
    [Ws |-> UNION {{AfterBiarc(W, recs) : recs \in biarc(p, DirBetween(p, K.ps), K.ts, t)}
                   : W \in K.Ws},
     ps |-> p, ts |-> t, n |-> K.n + 1]

\* P and t of lines 279-280 for tf = t/steps
ConicPoint(t, st, p0, p1, p2) ==
    LET n == ConicSample(t, st, p0, p1, p2) IN RatPt(n.x, n.y, Sq(st))
ConicTangent(t, st, q0, q1) ==
    Reduce([x |-> q0.x * (st - t) + q1.x * t, y |-> q0.y * (st - t) + q1.y * t])

\* the loop of lines 276-285
RECURSIVE ConicArcs(_, _, _, _, _, _, _)
ConicArcs(K, lo, hi, st, p0, p1, p2) ==
    IF lo > hi THEN K
    ELSE IF lo = hi THEN ArcStep(K, ConicPoint(lo, st, p0, p1, p2),
                              ConicTangent(lo, st, sub(p1, p0), sub(p2, p1)))
    ELSE LET mid == (lo + hi) \div 2
             first == ConicArcs(K, lo, mid, st, p0, p1, p2)
         IN  IF first = first THEN ConicArcs(first, mid + 1, hi, st, p0, p1, p2) ELSE first

\* P and t of lines 326-329 for tf = t/steps
CubicPoint(t, st, p0, p1, p2, p3) ==
    LET n == CubicSample(t, st, p0, p1, p2, p3) IN RatPt(n.x, n.y, Cube(st))
CubicTangent(t, st, q0, q1, q2) ==
    Reduce([x |-> q0.x * Sq(st - t) + q1.x * 2 * t * (st - t) + q2.x * Sq(t),
            y |-> q0.y * Sq(st - t) + q1.y * 2 * t * (st - t) + q2.y * Sq(t)])

\* the loop of lines 323-334
RECURSIVE CubicArcs(_, _, _, _, _, _, _, _)
CubicArcs(K, lo, hi, st, p0, p1, p2, p3) ==
    IF lo > hi THEN K
    ELSE IF lo = hi THEN ArcStep(K, CubicPoint(lo, st, p0, p1, p2, p3),
                              CubicTangent(lo, st, sub(p1, p0), sub(p2, p1), sub(p3, p2)))
    ELSE LET mid == (lo + hi) \div 2
             first == CubicArcs(K, lo, mid, st, p0, p1, p2, p3)
         IN  IF first = first THEN CubicArcs(first, mid + 1, hi, st, p0, p1, p2, p3) ELSE first

\* what the handler leaves behind: the possible W and the facts of the call
CurveResult(K, L, ds, to) ==
    {[W |-> [W EXCEPT !.last_point = to],
      curve |-> [len |-> L.len, spacing |-> ds, biarcs |-> K.n, endpt |-> K.ps,
                 to |-> IntPt(to)]] : W \in K.Ws}

\* the length estimate of my_conic_to, and the handler for a value of steps
ConicLength(W, control, to, cs) ==
    ConicSampling([W |-> [W EXCEPT !.calls.conic = @ + 1], point |-> W.last_point,
                   len |-> 0], 1, cs, cs, W.last_point, control, to)

my_conic_to(W, control, to, cs, ds, steps) ==
    LET L == ConicLength(W, control, to, cs)
        p0 == W.last_point
        K == ConicArcs([Ws |-> {L.W}, ps |-> IntPt(p0), ts |-> Reduce(sub(control, p0)),
                        n |-> 0], 1, steps, steps, p0, control, to)
    IN  CurveResult(K, L, ds, to)

CubicLength(W, control1, control2, to, cs) ==
    CubicSampling([W |-> [W EXCEPT !.calls.cubic = @ + 1], point |-> W.last_point,
                   len |-> 0], 1, cs, cs, W.last_point, control1, control2, to)

my_cubic_to(W, control1, control2, to, cs, ds, steps) ==
    LET L == CubicLength(W, control1, control2, to, cs)
        p0 == W.last_point
        K == CubicArcs([Ws |-> {L.W}, ps |-> IntPt(p0), ts |-> Reduce(sub(control1, p0)),
                        n |-> 0], 1, steps, steps, p0, control1, control2, to)
    IN  CurveResult(K, L, ds, to)

(***************************************************************************)
(* The font: what FreeType hands to the program.  A face maps a character  *)
(* code to a glyph or to nothing; a glyph has the outline events that      *)
(* FT_Outline_Decompose delivers, its advance, and the monochrome bitmap   *)
(* FT_Render_Glyph produces.                                               *)
(***************************************************************************)
Pt(a, b) == [x |-> a, y |-> b]
MoveTo(to) == [op |-> "move", c1 |-> to, c2 |-> to, to |-> to]
LineTo(to) == [op |-> "line", c1 |-> to, c2 |-> to, to |-> to]
ConicTo(control, to) == [op |-> "conic", c1 |-> control, c2 |-> control, to |-> to]
CubicTo(control1, control2, to) ==
    [op |-> "cubic", c1 |-> control1, c2 |-> control2, to |-> to]

Bitmap(rows, pitch, buffer) == [rows |-> rows, pitch |-> pitch, buffer |-> buffer]
Glyph(events, adv, bitmap, left, top) ==
    [events |-> events, advance |-> adv, bitmap |-> bitmap,
     bitmap_left |-> left, bitmap_top |-> top]

\* a blank: no contour, an advance, an empty bitmap
GlyphSpace == Glyph(<< >>, Pt(16, 0), Bitmap(0, 0, << >>), 0, 0)
\* straight segments only; two rows of 24 pixels: 18 set then clear, 12 clear then set
GlyphBar ==
    Glyph(<<MoveTo(Pt(1, 0)), LineTo(Pt(1, 7)), LineTo(Pt(3, 7))>>, Pt(5, 0),
          Bitmap(2, 3, <<255, 255, 192, 0, 15, 255>>), 1, 7)
\* a quarter turn, then a second contour below the baseline
GlyphArch ==
    Glyph(<<MoveTo(Pt(1, 2)), ConicTo(Pt(1, 8), Pt(7, 8)), LineTo(Pt(1, 2)),
            MoveTo(Pt(2, -3)), LineTo(Pt(4, -1))>>, Pt(9, 0),
          Bitmap(1, 1, <<60>>), 1, 8)
\* a cubic whose first control point is the start point, and a conic whose
\* control point lies on its chord
GlyphHook ==
    Glyph(<<MoveTo(Pt(2, 1)), CubicTo(Pt(2, 1), Pt(6, 5), Pt(8, 1)),
            ConicTo(Pt(5, 1), Pt(2, 1))>>, Pt(10, 0),
          Bitmap(1, 1, <<255>>), 2, 5)
\* a long conic, several arc pairs at a spacing of 20
GlyphWave ==
    Glyph(<<MoveTo(Pt(-20, 0)), ConicTo(Pt(0, 40), Pt(20, 0))>>, Pt(40, 1),
          Bitmap(0, 0, << >>), 0, 0)

Glyphs == <<GlyphSpace, GlyphBar, GlyphArch, GlyphHook, GlyphWave>>

\* character code -> glyph index; 0 is "no glyph" (FT_Get_Char_Index)
FaceSans == [c \in {32, 65, 108} |-> CASE c = 32 -> 1 [] c = 65 -> 3 [] c = 108 -> 2]
FaceHooks == [c \in {67, 126, 200} |-> CASE c = 67 -> 4 [] c = 126 -> 5 [] c = 200 -> 3]
Faces == {FaceSans, FaceHooks}

FT_Get_Char_Index(f, c) == IF c \in DOMAIN f THEN f[c] ELSE 0

\* the error codes a failing library call may return: 1 .. MaxFtError
MaxFtError == 2
FtResults == 0 .. MaxFtError

(***************************************************************************)
(* The command line.  text is the positional argument as the units mbtowc  *)
(* finds in it: [wc, r] with r the bytes the character takes, or r = -1    *)
(* for a byte that starts no character.                                    *)
(***************************************************************************)
Char(c) == [wc |-> c, r |-> 1]
Wide(c) == [wc |-> c, r |-> 2]
BadByte == [wc |-> 0, r |-> -1]

Rational(n, d) == [num |-> n, den |-> d]

Texts == {<< >>, <<Char(65), Char(90)>>, <<BadByte, Wide(200), Char(10)>>}
\* -s: the default 200, "20", "0", "1e-9"
Spacings == {Rational(200, 1), Rational(20, 1), Rational(0, 1), Rational(1, 1000000000)}
\* -l: not given, "10" (raised to 24), "30"
LineScales == {0, 10, 30}
\* -L: not given, "cut"
LayerNames == {<< >>, <<99, 117, 116>>}

CommandLines ==
    [f : BOOLEAN, F : BOOLEAN, bad : BOOLEAN, L : LayerNames, l : LineScales,
     s : Spacings, text : Texts]

RECURSIVE strlen(_)
strlen(t) == IF t = << >> THEN 0 ELSE Abs(Head(t).r) + strlen(Tail(t))

(***************************************************************************)
(* main(), lines 457-566, and render_char(), lines 394-455.                *)
(***************************************************************************)
cfgVars == <<argv, face, genfont, layer, dsteps, csteps, linescale>>
loopVars == <<wc, site, s, l, offset>>
rcVars == <<charcode, glyph_index, evi, ret, advance, mark, bmark, curve>>
idleVars == <<extVars, bmVars>>

NoCurve == [len |-> 0, spacing |-> Rational(0, 1), biarcs |-> 0, endpt |-> NoPt,
            to |-> NoPt]

\* the variables SpecExtents and SpecBitmap alone use, at rest
ExtIdle == fed_glyph = {} /\ fed_line = {}
NoBitmap == [b |-> Bitmap(0, 0, << >>), x |-> 0, y |-> 0, ls |-> 0]
BmIdle ==
    /\ bm = NoBitmap /\ bm_pc = "idle" /\ bm_j = 0 /\ bm_i = 0 /\ bm_bits = 0
    /\ scan = ScanStart

\* the status the parent sees of exit(x) or of main returning x
ExitStatus(x) == x % 256

\* handle_ft_error(where, f, x), lines 170-180, as its callers call it:
\* f is the library's error code and x is __LINE__
handle_ft_error(f, x) ==
    /\ pc' = "exit"
    /\ ft_error' = f
    /\ exit_code' = ExitStatus(x)

\* error = FT_...(); if(error) handle_ft_error("FT_...", error, __LINE__);
FtCall(at, lineno, next) ==
    /\ pc = at
    /\ \E error \in FtResults :
          IF error # 0 THEN handle_ft_error(error, lineno)
          ELSE pc' = next /\ UNCHANGED <<exit_code, ft_error>>

Globals == [genfont |-> genfont, layer |-> layer, charcode |-> charcode]
CurrentGlyph == Glyphs[glyph_index]

\* FT_Outline_Translate(&outline, offset, 0L)
Translate(p) == [x |-> p.x + offset, y |-> p.y]

Init ==
    /\ pc = "start"
    /\ argv \in CommandLines
    /\ face \in Faces
    /\ genfont = 0 /\ layer = << >> /\ dsteps = Rational(200, 1) /\ csteps = 10
    /\ linescale = 0 /\ charcode = 0
    /\ wc = 0 /\ site = "none" /\ s = << >> /\ l = 0 /\ offset = 0
    /\ glyph_index = 0 /\ evi = 0 /\ ret = 0 /\ advance = Pt(0, 0)
    /\ exit_code = -1 /\ ft_error = 0
    /\ glyph_extents = extents_zero /\ line_extents = extents_zero
    /\ last_point = Pt(0, 0) /\ odd = 0 /\ out = << >>
    /\ mark = 0 /\ bmark = 0 /\ walked = {} /\ calls = NoCalls /\ curve = NoCurve
    /\ ExtIdle /\ BmIdle

\* lines 468-502: the defaults, the getopt loop, the check for -f
ParseArgs ==
    /\ pc = "start"
    /\ csteps' = 100
    /\ genfont' = (IF argv.F THEN 1 ELSE 1)
    /\ dsteps' = argv.s
    /\ layer' = argv.L
    /\ linescale' = (IF argv.l = 0 THEN 0 ELSE IF argv.l < 24 THEN 24 ELSE argv.l)
    /\ IF argv.bad \/ ~argv.f
       THEN pc' = "exit" /\ exit_code' = ExitStatus(99)
       ELSE pc' = "ft_init" /\ UNCHANGED exit_code
    /\ UNCHANGED <<argv, face, loopVars, rcVars, walkVars, idleVars, line_extents, odd,
                   ft_error>>

\* lines 505-506
FtInitFreeType ==
    /\ FtCall("ft_init", 506, "new_face")
    /\ UNCHANGED <<cfgVars, loopVars, rcVars, walkVars, idleVars, line_extents, odd>>

\* lines 508-509
FtNewFace ==
    /\ FtCall("new_face", 509, "set_size")
    /\ UNCHANGED <<cfgVars, loopVars, rcVars, walkVars, idleVars, line_extents, odd>>

\* lines 516-517
FtSetPixelSizes ==
    /\ FtCall("set_size", 517, "preamble")
    /\ UNCHANGED <<cfgVars, loopVars, rcVars, walkVars, idleVars, line_extents, odd>>

\* lines 521-531: s, the preamble, extents_reset(&line_extents), offset = 0,
\* and the entry of the ASCII loop when genfont is set
Preamble ==
    /\ pc = "preamble"
    /\ s' = argv.text
    /\ out' = Append(out, PreambleRec)
    /\ line_extents' = extents_reset
    /\ offset' = 0
    /\ IF genfont # 0 THEN pc' = "ascii_test" /\ wc' = 32
       ELSE pc' = "text_start" /\ UNCHANGED wc
    /\ UNCHANGED <<cfgVars, site, l, rcVars, glyph_extents, last_point, walked, calls,
                   idleVars, odd, exit_code, ft_error>>

\* render_char(face, c, offset, linescale) is entered: charcode = c (line 400)
EnterRenderChar(c, from) ==
    /\ pc' = "rc_set_size"
    /\ site' = from
    /\ charcode' = c
    /\ mark' = Len(out)
    /\ bmark' = Len(out)
    /\ walked' = {}
    /\ calls' = NoCalls

\* line 531: the loop test, and the call of line 532
AsciiNext ==
    /\ pc = "ascii_test"
    /\ IF wc < 127
       THEN /\ EnterRenderChar(wc, "ascii")
            /\ UNCHANGED <<wc, s, l, offset>>
       ELSE /\ pc' = "text_start"
            /\ UNCHANGED <<loopVars, charcode, mark, bmark, walked, calls>>
    /\ UNCHANGED <<cfgVars, glyph_index, evi, ret, advance, curve, glyph_extents,
                   last_point, out, idleVars, line_extents, odd, exit_code, ft_error>>

\* lines 402-403
RcSetPixelSizes ==
    /\ FtCall("rc_set_size", 403, "rc_get_index")
    /\ UNCHANGED <<cfgVars, loopVars, rcVars, walkVars, idleVars, line_extents, odd>>

\* lines 406-409: a missing glyph makes render_char return -1
RcGetCharIndex ==
    /\ pc = "rc_get_index"
    /\ glyph_index' = FT_Get_Char_Index(face, charcode)
    /\ IF glyph_index' = 0
       THEN ret' = -1 /\ pc' = "returned"
       ELSE pc' = "rc_load" /\ UNCHANGED ret
    /\ UNCHANGED <<cfgVars, loopVars, charcode, evi, advance, mark, bmark, curve,
                   walkVars, idleVars, line_extents, odd, exit_code, ft_error>>

\* lines 412-414
RcLoadGlyph ==
    /\ FtCall("rc_load", 414, "rc_render")
    /\ UNCHANGED <<cfgVars, loopVars, rcVars, walkVars, idleVars, line_extents, odd>>

\* lines 415-416
RcRenderGlyph ==
    /\ FtCall("rc_render", 416, "rc_bitmap")
    /\ UNCHANGED <<cfgVars, loopVars, rcVars, walkVars, idleVars, line_extents, odd>>

\* lines 418-422
RcDrawBitmap ==
    /\ pc = "rc_bitmap"
    /\ IF linescale > 0
       THEN LET g == CurrentGlyph
                r == my_draw_bitmap(Walker, odd, g.bitmap, g.bitmap_left + offset,
                                    g.bitmap_top, linescale, Globals)
            IN  /\ SetWalker(r.W)
                /\ odd' = r.odd
                /\ bmark' = Len(r.W.out)
                /\ pc' = IF r.overrun THEN "undefined" ELSE "rc_set_size2"
       ELSE /\ pc' = "rc_set_size2"
            /\ UNCHANGED <<walkVars, odd, bmark>>
    /\ UNCHANGED <<cfgVars, loopVars, charcode, glyph_index, evi, ret, advance, mark,
                   curve, idleVars, line_extents, exit_code, ft_error>>

\* lines 425-426
RcSetPixelSizes2 ==
    /\ FtCall("rc_set_size2", 426, "rc_load2")
    /\ UNCHANGED <<cfgVars, loopVars, rcVars, walkVars, idleVars, line_extents, odd>>

\* lines 427-443: the second load, the handler table, the translation
RcLoadGlyph2 ==
    /\ FtCall("rc_load2", 429, "rc_decompose")
    /\ evi' = 0
    /\ UNCHANGED <<cfgVars, loopVars, charcode, glyph_index, ret, advance, mark, bmark,
                   curve, walkVars, idleVars, line_extents, odd>>

\* FT_Outline_Decompose (line 446) delivers the next event of the outline
NextEvent == CurrentGlyph.events[evi + 1]
Delivers(op) ==
    /\ pc = "rc_decompose"
    /\ evi < Len(CurrentGlyph.events)
    /\ NextEvent.op = op

DecomposeMoveTo ==
    /\ Delivers("move")
    /\ SetWalker(my_move_to(Walker, Translate(NextEvent.to), Globals))
    /\ evi' = evi + 1
    /\ UNCHANGED <<pc, cfgVars, loopVars, charcode, glyph_index, ret, advance, mark,
                   bmark, curve, idleVars, line_extents, odd, exit_code, ft_error>>

DecomposeLineTo ==
    /\ Delivers("line")
    /\ SetWalker(my_line_to(Walker, Translate(NextEvent.to)))
    /\ evi' = evi + 1
    /\ UNCHANGED <<pc, cfgVars, loopVars, charcode, glyph_index, ret, advance, mark,
                   bmark, curve, idleVars, line_extents, odd, exit_code, ft_error>>

\* results[steps]: what the handler may leave behind for that value of steps;
\* a handler whose loop has INT_MAX passes does not return within the model
CurveHandler(len, results) ==
    \E steps \in StepsOutcomes(len, dsteps, csteps) :
        IF steps = INT_MAX
        THEN /\ pc' = "spinning"
             /\ UNCHANGED <<walkVars, curve, evi>>
        ELSE \E r \in results[steps] :
                /\ SetWalker(r.W)
                /\ curve' = r.curve
                /\ evi' = evi + 1
                /\ UNCHANGED pc

DecomposeConicTo ==
    /\ Delivers("conic")
    /\ LET control == Translate(NextEvent.c1)
           to == Translate(NextEvent.to)
           len == ConicLength(Walker, control, to, csteps).len
           Results == [steps \in StepsOutcomes(len, dsteps, csteps) \ {INT_MAX} |->
                          my_conic_to(Walker, control, to, csteps, dsteps, steps)]
       IN  CurveHandler(len, Results)
    /\ UNCHANGED <<cfgVars, loopVars, charcode, glyph_index, ret, advance, mark,
                   bmark, idleVars, line_extents, odd, exit_code, ft_error>>

DecomposeCubicTo ==
    /\ Delivers("cubic")
    /\ LET control1 == Translate(NextEvent.c1)
           control2 == Translate(NextEvent.c2)
           to == Translate(NextEvent.to)
           len == CubicLength(Walker, control1, control2, to, csteps).len
           Results == [steps \in StepsOutcomes(len, dsteps, csteps) \ {INT_MAX} |->
                          my_cubic_to(Walker, control1, control2, to, csteps, dsteps, steps)]
       IN  CurveHandler(len, Results)
    /\ UNCHANGED <<cfgVars, loopVars, charcode, glyph_index, ret, advance, mark,
                   bmark, idleVars, line_extents, odd, exit_code, ft_error>>

\* lines 446-454: FT_Outline_Decompose returns; an error is fatal, otherwise the
\* advance is saved and returned
DecomposeReturns ==
    /\ pc = "rc_decompose"
    /\ \E error \in FtResults :
          IF error # 0
          THEN /\ handle_ft_error(error, 447)
               /\ UNCHANGED <<advance, ret>>
          ELSE /\ evi = Len(CurrentGlyph.events)
               /\ advance' = CurrentGlyph.advance
               /\ ret' = CurrentGlyph.advance.x
               /\ pc' = "returned"
               /\ UNCHANGED <<exit_code, ft_error>>
    /\ UNCHANGED <<cfgVars, loopVars, charcode, glyph_index, evi, mark, bmark, curve,
                   walkVars, idleVars, line_extents, odd>>

\* the six records with maxx printed before minx
DimensionsSwapped(e, adv, G) ==
    <<DimensionRec("maxx", 70, 13, e.maxx)>> \o maybe_output_layer(G) \o
    <<DimensionRec("minx", 70, 13, e.minx)>> \o maybe_output_layer(G) \o
    <<DimensionRec("miny", 6, 23, e.miny)>> \o maybe_output_layer(G) \o
    <<DimensionRec("maxy", 6, 23, e.maxy)>> \o maybe_output_layer(G) \o
    <<DimensionRec("advx", 70, 13, adv.x)>> \o maybe_output_layer(G) \o
    <<DimensionRec("advy", 6, 23, adv.y)>> \o maybe_output_layer(G)

\* lines 534-545: six DIMENSION records, each followed by maybe_output_layer()
Dimensions(e, adv, G) ==
    <<DimensionRec("minx", 70, 13, e.minx)>> \o maybe_output_layer(G) \o
    <<DimensionRec("maxx", 70, 13, e.maxx)>> \o maybe_output_layer(G) \o
    <<DimensionRec("miny", 6, 23, e.miny)>> \o maybe_output_layer(G) \o
    <<DimensionRec("maxy", 6, 23, e.maxy)>> \o maybe_output_layer(G) \o
    <<DimensionRec("advx", 70, 13, adv.x)>> \o maybe_output_layer(G) \o
    <<DimensionRec("advy", 6, 23, adv.y)>> \o maybe_output_layer(G)

\* the body of the ASCII loop without the "continue" of line 532
AsciiAfterAlways ==
    /\ pc = "returned" /\ site = "ascii"
    /\ line_extents' = extents_add_extents(line_extents, glyph_extents)
    /\ out' = out \o Dimensions(glyph_extents, advance, Globals)
    /\ wc' = wc + 1
    /\ pc' = "ascii_test"
    /\ UNCHANGED <<cfgVars, site, s, l, offset, rcVars, glyph_extents, last_point,
                   walked, calls, idleVars, odd, exit_code, ft_error>>

\* lines 532-546, after render_char returned, with the wc++ of the loop
AsciiAfter ==
    /\ pc = "returned" /\ site = "ascii"
    /\ IF ret < 0
       THEN UNCHANGED <<line_extents, out>>
       ELSE /\ line_extents' = extents_add_extents(line_extents, glyph_extents)
            /\ out' = out \o Dimensions(glyph_extents, advance, Globals)
    /\ wc' = wc + 1
    /\ pc' = "ascii_test"
    /\ UNCHANGED <<cfgVars, site, s, l, offset, rcVars, glyph_extents, last_point,
                   walked, calls, idleVars, odd, exit_code, ft_error>>

\* line 548
TextStart ==
    /\ pc = "text_start"
    /\ l' = strlen(s)
    /\ pc' = "text_test"
    /\ UNCHANGED <<cfgVars, wc, site, s, offset, rcVars, walkVars, idleVars,
                   line_extents, odd, exit_code, ft_error>>

\* lines 549-555: the loop test, mbtowc, the reset and the call
TextNext ==
    /\ pc = "text_test"
    /\ l # 0 /\ s # << >>
    /\ IF Head(s).r = -1
       THEN /\ s' = Tail(s)
            /\ UNCHANGED <<pc, site, charcode, mark, bmark, walked, calls, glyph_extents>>
       ELSE /\ glyph_extents' = extents_reset
            /\ EnterRenderChar(Head(s).wc, "text")
            /\ UNCHANGED s
    /\ UNCHANGED <<cfgVars, wc, l, offset, glyph_index, evi, ret, advance, curve,
                   last_point, out, idleVars, line_extents, odd, exit_code, ft_error>>

\* lines 556-560
TextAfter ==
    /\ pc = "returned" /\ site = "text"
    /\ IF ret >= 0
       THEN /\ offset' = (IF genfont = 0 THEN offset + ret ELSE offset)
            /\ line_extents' = extents_add_extents(line_extents, glyph_extents)
       ELSE UNCHANGED <<offset, line_extents>>
    /\ s' = Tail(s)
    /\ l' = l - Head(s).r
    /\ pc' = "text_test"
    /\ UNCHANGED <<cfgVars, wc, site, rcVars, walkVars, idleVars, odd, exit_code,
                   ft_error>>

\* lines 564-565
Postamble ==
    /\ pc = "text_test"
    /\ ~(l # 0 /\ s # << >>)
    /\ out' = Append(out, PostambleRec)
    /\ pc' = "exit"
    /\ exit_code' = ExitStatus(0)
    /\ UNCHANGED <<cfgVars, loopVars, rcVars, glyph_extents, last_point, walked, calls,
                   idleVars, line_extents, odd, ft_error>>

Next ==
    \/ ParseArgs
    \/ FtInitFreeType
    \/ FtNewFace
    \/ FtSetPixelSizes
    \/ Preamble
    \/ AsciiNext
    \/ RcSetPixelSizes
    \/ RcGetCharIndex
    \/ RcLoadGlyph
    \/ RcRenderGlyph
    \/ RcDrawBitmap
    \/ RcSetPixelSizes2
    \/ RcLoadGlyph2
    \/ DecomposeMoveTo
    \/ DecomposeLineTo
    \/ DecomposeConicTo
    \/ DecomposeCubicTo
    \/ DecomposeReturns
    \/ AsciiAfter
    \/ TextStart
    \/ TextNext
    \/ TextAfter
    \/ Postamble

Spec == Init /\ [][Next]_vars

(***************************************************************************)
(* SpecExtents: any sequence of calls on the two boxes of the program,     *)
(* glyph_extents being merged into line_extents as main() does.            *)
(***************************************************************************)
\* the rest of the program's variables, at rest
MainIdle ==
    /\ pc = "idle"
    /\ argv = [f |-> TRUE, F |-> FALSE, bad |-> FALSE, L |-> << >>, l |-> 0,
               s |-> Rational(200, 1), text |-> << >>]
    /\ face = FaceSans
    /\ genfont = 1 /\ layer = << >> /\ dsteps = Rational(200, 1) /\ csteps = 100
    /\ linescale = 0 /\ charcode = 65
    /\ wc = 0 /\ site = "none" /\ s = << >> /\ l = 0 /\ offset = 0
    /\ glyph_index = 0 /\ evi = 0 /\ ret = 0 /\ advance = Pt(0, 0)
    /\ exit_code = -1 /\ ft_error = 0
    /\ mark = 0 /\ bmark = 0 /\ curve = NoCurve

\* how many points the two boxes may have been fed, in all
MaxFed == 3

\* coordinates strictly inside the reset values, the extreme ones included
ExtCoords == {-(BIG - 1), -1, 0, 2, BIG - 1}
ExtPoints == {Pt(a, b) : a \in ExtCoords, b \in ExtCoords}

ExtInit ==
    /\ MainIdle /\ BmIdle
    /\ glyph_extents = extents_reset
    /\ line_extents = extents_reset
    /\ fed_glyph = {}
    /\ fed_line = {}
    /\ last_point = Pt(0, 0) /\ odd = 0 /\ out = << >> /\ walked = {} /\ calls = NoCalls

extRest == <<mainVars, bmVars, last_point, out, walked, calls, odd>>

ExtResetGlyph ==
    /\ glyph_extents' = extents_reset
    /\ fed_glyph' = {}
    /\ UNCHANGED <<line_extents, fed_line, extRest>>

ExtResetLine ==
    /\ line_extents' = extents_reset
    /\ fed_line' = {}
    /\ UNCHANGED <<glyph_extents, fed_glyph, extRest>>

ExtAddPointGlyph ==
    \E p \in ExtPoints :
        /\ Cardinality(fed_glyph \cup {p}) + Cardinality(fed_line) <= MaxFed
        /\ glyph_extents' = extents_add_point(glyph_extents, p)
        /\ fed_glyph' = fed_glyph \cup {p}
        /\ UNCHANGED <<line_extents, fed_line, extRest>>

ExtAddPointLine ==
    \E p \in ExtPoints :
        /\ Cardinality(fed_glyph) + Cardinality(fed_line \cup {p}) <= MaxFed
        /\ line_extents' = extents_add_point(line_extents, p)
        /\ fed_line' = fed_line \cup {p}
        /\ UNCHANGED <<glyph_extents, fed_glyph, extRest>>

ExtAddExtents ==
    /\ Cardinality(fed_glyph) + Cardinality(fed_line \cup fed_glyph) <= MaxFed
    /\ line_extents' = extents_add_extents(line_extents, glyph_extents)
    /\ fed_line' = fed_line \cup fed_glyph
    /\ UNCHANGED <<glyph_extents, fed_glyph, extRest>>

ExtNext ==
    \/ ExtResetGlyph
    \/ ExtResetLine
    \/ ExtAddPointGlyph
    \/ ExtAddPointLine
    \/ ExtAddExtents

SpecExtents == ExtInit /\ [][ExtNext]_vars

(***************************************************************************)
(* SpecBitmap: my_draw_bitmap on one bitmap, the scan taken one bit at a   *)
(* time.  The bitmaps: every single-byte row, and rows of runs of set bits *)
(* of one length separated by gaps of one length.                          *)
(***************************************************************************)
\* the widest row, in bytes
MaxPitch == 113

\* bit k of a row that starts with lead clear bits and then repeats run set
\* bits and gap clear bits
PeriodicBit(k, lead, run, gap) ==
    IF k >= lead /\ ((k - lead) % (run + gap)) < run THEN 1 ELSE 0

RECURSIVE PeriodicByte(_, _, _, _, _)
PeriodicByte(i, bits, lead, run, gap) ==
    IF bits > 7 THEN 0
    ELSE PeriodicBit(i * 8 + bits, lead, run, gap) * Pow2(7 - bits)
         + PeriodicByte(i, bits + 1, lead, run, gap)

PeriodicBitmap(rows, pitch, lead, run, gap) ==
    Bitmap(rows, pitch,
           [n \in 1 .. rows * pitch |-> PeriodicByte((n - 1) % pitch, 0, lead, run, gap)])

BmInputs ==
    {[b |-> Bitmap(1, 1, <<byte>>), x |-> -3, y |-> 2, ls |-> 24] : byte \in 0 .. 255}
    \cup
    {[b |-> PeriodicBitmap(rows, pitch, lead, run, gap), x |-> 0, y |-> 1, ls |-> 24] :
        rows \in {1, 2}, pitch \in {3, MaxPitch}, lead \in {0, 1}, run \in {16, 17},
        gap \in {1, 2}}

BmInit ==
    /\ MainIdle /\ ExtIdle
    /\ bm \in BmInputs
    /\ bm_pc = "scan" /\ bm_j = 0 /\ bm_i = 0 /\ bm_bits = 0
    /\ scan = RowStart(ScanStart)
    /\ glyph_extents = extents_zero /\ line_extents = extents_zero
    /\ last_point = Pt(0, 0) /\ odd = 0 /\ out = << >> /\ walked = {} /\ calls = NoCalls

bmRest == <<mainVars, extVars, line_extents>>

\* one pass of the innermost loop of row bm_j
BmScanBit ==
    /\ bm_pc = "scan"
    /\ bm_i < bm.b.pitch
    /\ scan' = ScanBit(scan, bm.b.buffer[bm_j * bm.b.pitch + bm_i + 1], bm_i, bm_bits,
                       bm_j, bm.x, bm.y, bm.ls)
    /\ bm_pc' = (IF scan'.overrun THEN "undefined" ELSE "scan")
    /\ IF bm_bits = 7 THEN bm_i' = bm_i + 1 /\ bm_bits' = 0
       ELSE bm_bits' = bm_bits + 1 /\ UNCHANGED bm_i
    /\ UNCHANGED <<bm, bm_j, walkVars, odd, bmRest>>

\* lines 373-376, after the last byte of the row
BmRowClose ==
    /\ bm_pc = "scan"
    /\ bm_i >= bm.b.pitch
    /\ scan' = RowClose(scan)
    /\ bm_pc' = (IF scan'.overrun THEN "undefined" ELSE "emit")
    /\ UNCHANGED <<bm, bm_j, bm_i, bm_bits, walkVars, odd, bmRest>>

\* lines 377-389, and the step to the next row
BmEmitRow ==
    /\ bm_pc = "emit"
    /\ odd' = (IF odd = 0 THEN 1 ELSE 0)
    /\ SetWalker(EmitRow(Walker, scan, odd', Globals))
    /\ bm_j' = bm_j + 1
    /\ bm_i' = 0 /\ bm_bits' = 0
    /\ IF bm_j + 1 < bm.b.rows
       THEN bm_pc' = "scan" /\ scan' = RowStart(scan)
       ELSE bm_pc' = "done" /\ UNCHANGED scan
    /\ UNCHANGED <<bm, bmRest>>

BmNext ==
    \/ BmScanBit
    \/ BmRowClose
    \/ BmEmitRow

SpecBitmap == BmInit /\ [][BmNext]_vars

(***************************************************************************)
(* Properties.                                                             *)
(***************************************************************************)
MinOf(S) == CHOOSE m \in S : \A n \in S : m <= n
MaxOf(S) == CHOOSE m \in S : \A n \in S : m >= n

\* the smallest axis-aligned box around a non-empty set of points
BoxOf(S) ==
    [minx |-> MinOf({p.x : p \in S}), maxx |-> MaxOf({p.x : p \in S}),
     miny |-> MinOf({p.y : p \in S}), maxy |-> MaxOf({p.y : p \in S})]

\* box f reaches at least as far as box e on every side
Grows(e, f) ==
    /\ f.minx <= e.minx /\ f.maxx >= e.maxx
    /\ f.miny <= e.miny /\ f.maxy >= e.maxy

\* the ASCII loop has just finished the body for a character that has a glyph
AfterAsciiGlyph == pc = "ascii_test" /\ site = "ascii" /\ ret >= 0

\* the value printed in the DIMENSION record of that name for the current character
DimensionValue(name) ==
    LET i == CHOOSE k \in (mark + 1) .. Len(out) :
                 out[k].kind = "DIMENSION" /\ out[k].text = name
    IN  out[i].val

PrintedBox ==
    [minx |-> DimensionValue("minx"), maxx |-> DimensionValue("maxx"),
     miny |-> DimensionValue("miny"), maxy |-> DimensionValue("maxy")]

\* C1: for every glyph rendered in the ASCII loop, the minx/maxx/miny/maxy
\* values of its dimension records are the bounding box of the points merged
\* while walking that glyph alone.
C1_DimensionsAreGlyphBox ==
    (AfterAsciiGlyph /\ walked # {}) => PrintedBox = BoxOf(walked)

\* 'A' of FaceSans lies at x >= 1, and its minx is printed as 0
C1_Witness ==
    /\ AfterAsciiGlyph /\ charcode = 65 /\ walked # {}
    /\ BoxOf(walked).minx = 1
    /\ PrintedBox.minx = 0

DimensionNames == <<"minx", "maxx", "miny", "maxy", "advx", "advy">>

\* the characters of the ASCII loop already dealt with that have a glyph
RenderedSoFar == {c \in 32 .. (wc - 1) : FT_Get_Char_Index(face, c) # 0}

\* C2: for every character of the ASCII range that has a glyph, the records
\* of that character end with exactly six DIMENSION records named minx,
\* maxx, miny, maxy, advx, advy in that order, each followed by the layer
\* tag of the glyph's polylines; they come after the glyph's polyline and
\* vertex records, and no character has more or fewer than six.
C2_SixDimensionsAfterGlyph ==
    pc = "ascii_test" =>
        /\ Cardinality({i \in DOMAIN out : out[i].kind = "DIMENSION"})
              = 6 * Cardinality(RenderedSoFar)
        /\ AfterAsciiGlyph =>
              LET n == Len(out)
                  tag == LayerRec(<<charcode>>)
              IN  /\ n - mark >= 12
                  /\ \A k \in 1 .. 6 :
                        /\ out[n - 13 + 2 * k].kind = "DIMENSION"
                        /\ out[n - 13 + 2 * k].text = DimensionNames[k]
                        /\ out[n - 12 + 2 * k] = tag
                  /\ out[n - 3].val = advance.x
                  /\ out[n - 1].val = advance.y
                  /\ \A i \in (mark + 1) .. (n - 12) :
                        /\ out[i].kind \in {"LWPOLYLINE", "layer", "vertex", "G1"}
                        /\ out[i].kind = "LWPOLYLINE" => out[i + 1] = tag
                        /\ out[i].kind = "layer" => out[i] = tag

\* 'A' of FaceSans, a glyph of two contours and a curve, has its six records
C2_Witness ==
    /\ AfterAsciiGlyph /\ charcode = 65
    /\ calls.move = 2 /\ calls.conic = 1
    /\ Len(out) - mark > 12
    /\ out[Len(out) - 11].text = "minx"

\* C3: when a library call returns a non-zero error code e, the process
\* terminates with exit status e.
C3_ExitStatusIsErrorCode ==
    (pc = "exit" /\ ft_error # 0) => exit_code = ft_error

\* FT_Set_Pixel_Sizes failing with error 1 in render_char: status 403 % 256
C3_Witness ==
    /\ pc = "exit" /\ ft_error = 1 /\ exit_code = 147
    /\ site = "ascii"

\* a record that belongs to a polyline's vertex list
InPolyline(r) == r.kind \notin {"SECTION", "ENDSEC", "LWPOLYLINE", "layer", "DIMENSION"}

\* C4: every record between a polyline start and the next polyline start,
\* dimension or postamble record is a vertex of shape {x, y} (group codes 10,
\* 20) or {bulge, x, y} (group codes 42, 10, 20); every degenerate-geometry
\* fallback of biarc() and arc() prints a plain {x, y} vertex.
C4_OnlyVertexShapes ==
    \A i \in DOMAIN out :
        InPolyline(out[i]) =>
            /\ out[i].kind = "vertex"
            /\ out[i].codes \in {<<10, 20>>, <<42, 10, 20>>}

\* the cubic of 'C' in FaceHooks starts with a zero tangent: arc() prints "G1 ..."
C4_Witness ==
    /\ charcode = 67 /\ calls.cubic = 1
    /\ \E i \in (mark + 1) .. Len(out) : out[i].kind = "G1" /\ out[i].codes = << >>

\* render_char is at or before its return for a character without a glyph
Skipping ==
    /\ pc \in {"rc_set_size", "rc_get_index", "returned"}
    /\ FT_Get_Char_Index(face, charcode) = 0

\* C5: for a character without a glyph, in the ASCII loop and in the text
\* loop, nothing is printed and line_extents keeps its value from the entry of
\* render_char until the loop has moved on, and the loop does move on to the
\* next character.
C5_MissingGlyphSkipped ==
    [][Skipping =>
          /\ out' = out
          /\ line_extents' = line_extents
          /\ Len(out) = mark
          /\ pc = "returned" =>
                /\ ret = -1
                /\ site = "ascii" => pc' = "ascii_test" /\ wc' = wc + 1
                /\ site = "text" => pc' = "text_test" /\ s' = Tail(s) /\ l' = l - Head(s).r]_vars

\* 'Z' of the text, after 'A' was rendered: skipped with line_extents holding
\* the boxes gathered so far
C5_Witness ==
    /\ pc = "text_test" /\ site = "text" /\ ret = -1 /\ charcode = 90
    /\ s = << >> /\ Len(out) = mark
    /\ line_extents # extents_reset

\* the tag of font-generation mode for character code c
FontTag(c) == IF c < 32 \/ c > 126 THEN <<95>> \o Decimal(c) ELSE <<c>>

\* the tag the command line asks for, if any
RequestedTags ==
    IF argv.F THEN {FontTag(charcode)}
    ELSE IF argv.L # << >> THEN {argv.L}
    ELSE {}

\* C6: in font-generation mode (-F) the tag is the character if it is in
\* [' ', '~'] and '_' with the decimal code otherwise; with a layer name (-L)
\* and no font-generation mode every polyline start carries that name; with
\* neither, no layer field is printed.
C6_LayerTagSelection ==
    \A i \in (mark + 1) .. Len(out) :
        /\ out[i].kind = "layer" => out[i].tag \in RequestedTags
        /\ (out[i].kind = "LWPOLYLINE" /\ RequestedTags # {}) =>
              /\ i < Len(out)
              /\ out[i + 1].kind = "layer"

\* -L cut without -F: the polylines of 'A' are tagged "A"
C6_Witness ==
    /\ ~argv.F /\ argv.L = <<99, 117, 116>>
    /\ charcode = 65
    /\ \E i \in (mark + 1) .. Len(out) : out[i] = LayerRec(<<65>>)

\* C7: after extents_reset, whatever extents_add_point and
\* extents_add_extents calls follow (coordinates strictly inside
\* +/-2000000000), the box is the smallest axis-aligned box containing every
\* point passed in, directly or through a merged box; in particular the
\* first point p gives {p.x, p.x, p.y, p.y}; and no bound shrinks between
\* resets.
C7_ExtentsSmallestBox ==
    /\ [](/\ fed_glyph # {} => glyph_extents = BoxOf(fed_glyph)
          /\ fed_line # {} => line_extents = BoxOf(fed_line)
          /\ fed_glyph = {} => glyph_extents = extents_reset
          /\ fed_line = {} => line_extents = extents_reset)
    /\ [][/\ fed_glyph' # {} => Grows(glyph_extents, glyph_extents')
          /\ fed_line' # {} => Grows(line_extents, line_extents')]_vars

\* a glyph box merged into a line box that already held the extreme points
C7_Witness ==
    /\ fed_glyph # {} /\ fed_line # fed_glyph /\ fed_glyph \subseteq fed_line
    /\ line_extents.minx = -(BIG - 1) /\ line_extents.maxx = BIG - 1
    /\ glyph_extents # line_extents

\* my_conic_to or my_cubic_to has just returned
AfterCurve ==
    /\ pc = "rc_decompose" /\ evi > 0
    /\ CurrentGlyph.events[evi].op \in {"conic", "cubic"}

\* max(2, floor(len / spacing)), len in units of 1/csteps^2, for spacing > 0
Subdivisions(len, spacing) ==
    Max2((len * spacing.den) \div (spacing.num * Sq(csteps)))

\* C8: for every conic_to and cubic_to event the number of biarc calls is
\* max(2, floor(len / spacing)), at least 2, and the last subdivision ends at
\* the end point of the segment, to which last_point is set.
C8_SubdivisionCount ==
    AfterCurve =>
        /\ curve.biarcs >= 2
        /\ (curve.spacing.num > 0 /\ curve.spacing.den = 1) =>
              curve.biarcs = Subdivisions(curve.len, curve.spacing)
        /\ curve.endpt = curve.to
        /\ last_point = Translate(CurrentGlyph.events[evi].to)

\* -s 0: the conversion of +inf gave INT_MIN, and the curve has no vertex
C8_Witness ==
    /\ AfterCurve
    /\ dsteps.num = 0 /\ curve.len > 0
    /\ curve.biarcs = 0 /\ curve.endpt # curve.to

\* bit k of row j of bitmap b
BitOf(b, j, k) == (b.buffer[j * b.pitch + (k \div 8) + 1] \div Pow2(7 - (k % 8))) % 2

\* the runs of set bits of row j that my_draw_bitmap keeps: those that reach
\* the end of the row, and those longer than 16 bits
KeptRuns(b, j) ==
    LET n == b.pitch * 8
        Starts == {k \in 0 .. (n - 1) :
                      BitOf(b, j, k) = 1 /\ (k = 0 \/ BitOf(b, j, k - 1) = 0)}
        EndOf(k) == MinOf({e \in (k + 1) .. n : e = n \/ BitOf(b, j, e) = 0})
    IN  {k \in Starts : EndOf(k) = n \/ EndOf(k) - k > 16}

RECURSIVE KeptSpans(_, _)
KeptSpans(b, j) ==
    IF j >= b.rows THEN 0 ELSE Cardinality(KeptRuns(b, j)) + KeptSpans(b, j + 1)

CurveEvents == {i \in DOMAIN CurrentGlyph.events :
                   CurrentGlyph.events[i].op \in {"conic", "cubic"}}

\* C9 as amended: with linescale > 0, my_draw_bitmap makes one my_move_to
\* and one my_line_to per span it keeps, calls neither curve handler nor the
\* biarc fitter, and prints polyline starts and plain {x, y} vertices only;
\* the outline of the glyph is walked all the same afterwards, every conic
\* and cubic event reaching its handler.
C9_BitmapStraightThenOutline ==
    /\ (pc = "rc_set_size2" /\ linescale > 0) =>
          /\ calls.move = KeptSpans(CurrentGlyph.bitmap, 0)
          /\ calls.line = calls.move
          /\ calls.conic = 0 /\ calls.cubic = 0 /\ calls.biarc = 0 /\ calls.arc = 0
          /\ bmark = Len(out)
          /\ Cardinality({i \in (mark + 1) .. bmark : out[i].kind = "LWPOLYLINE"})
                = calls.move
          /\ \A i \in (mark + 1) .. bmark :
                \/ out[i].kind \in {"LWPOLYLINE", "layer"}
                \/ out[i].kind = "vertex" /\ out[i].codes = <<10, 20>>
    /\ (pc = "returned" /\ ret >= 0) =>
          calls.conic + calls.cubic = Cardinality(CurveEvents)

\* 'l' of FaceSans at -l 30: two spans drawn, then the outline
C9_Witness ==
    /\ pc = "returned" /\ ret >= 0 /\ linescale = 30 /\ charcode = 108
    /\ bmark - mark = 6
    /\ KeptSpans(CurrentGlyph.bitmap, 0) = 2
    /\ calls.move = 3 /\ calls.line = 4

\* C9: with linescale > 0 rendering a glyph bypasses the curve flattener:
\* each bitmap span becomes one move_to + line_to pair, no conic_to or
\* cubic_to handler and no biarc fitter runs for the glyph, and every vertex
\* printed for it is a plain one.
C9_BitmapBypassesCurves ==
    (pc = "returned" /\ ret >= 0 /\ linescale > 0) =>
        /\ calls.move = KeptSpans(CurrentGlyph.bitmap, 0)
        /\ calls.line = calls.move
        /\ calls.conic = 0 /\ calls.cubic = 0 /\ calls.biarc = 0
        /\ \A i \in (mark + 1) .. Len(out) :
              out[i].kind \in {"LWPOLYLINE", "layer"}
              \/ (out[i].kind = "vertex" /\ out[i].codes = <<10, 20>>)

\* C10: in my_draw_bitmap, for every row, spans stays within 0..100 at every
\* step of the scan, with no write at index 100 or beyond, and the number of
\* entries stored at the end of the row is even.
C10_SpansWithinVbuf ==
    /\ ~scan.overrun
    /\ 0 <= scan.spans /\ scan.spans <= VBUF_LEN
    /\ bm_pc = "emit" => scan.spans % 2 = 0

\* a row of 113 bytes, runs of 17 set bits one clear bit apart: the start of
\* the 51st run is written to vbuf[100]
C10_Witness ==
    /\ scan.overrun /\ bm_pc = "undefined"
    /\ bm.b.pitch = MaxPitch
    /\ scan.spans = VBUF_LEN + 1

====
